---- MODULE Spec2Model ----
(***************************************************************************)
(* Model of the LiteraVerse offline layer: the service worker (sw.js:      *)
(* install / activate / fetch / sync / push / notificationclick handlers   *)
(* and the pending_sync drain), the page-side operations that touch the    *)
(* same stores (script.js cleanupCache, UserManager.syncReadingProgress),  *)
(* and the page's own caches of data: BookManager.cachedFetch and the      *)
(* user record kept by UserManager (updateUser and the favourites).        *)
(*                                                                         *)
(* Cache Storage is a sequence of named caches in creation order, which is *)
(* the order caches.keys() lists them and caches.match() searches them.    *)
(* The pending_sync object store is a sequence of records in key (id)      *)
(* order, which is the order getAll() returns them.  db.getAll / db.delete *)
(* are read as the promise wrappers their call sites assume.               *)
(***************************************************************************)
EXTENDS Integers, Sequences, FiniteSets, Bags, TLC

VARIABLES
    swState,            \* lifecycle of the worker: parsed, installed, activated, redundant
    skipWaitingCalled,  \* self.skipWaiting() was called by the latest install
    installFailedAt,    \* index of the manifest resource whose fetch failed in the latest install, 0 = none
    caches,             \* Cache Storage: sequence of [name, entries] in creation order
    fetching,           \* bag of intercepted requests suspended on fetch(fetchRequest)
    putting,            \* cache.put calls issued and not yet performed
    answer,             \* outcome of the fetch event answered last
    lastStored,         \* per key, the response the fetch handler stored last
    lastPurge,          \* set when the step just taken was a purge: the cache names it deleted
    queue,              \* pending_sync object store, in key order
    drains,             \* bag of running syncReadingProgress invocations
    mutation,           \* latest page-side mutating request: sent, failed, records it queued
    lastHalt,           \* id of the record at which the drain halted last gave up, 0 = no drain halted
    lastSync,           \* set when the latest step of the sync machinery was a sync event with a tag other than SYNC_TAG: that tag
    shown,              \* notifications on display (showNotification requests not yet closed)
    clients,            \* urls of the open window clients of the worker
    lastPush,           \* outcome of the push event handled last
    lastClick,          \* outcome of the notificationclick event handled last
    bmNow,              \* the page's clock, Date.now(), in ms
    bmCache,            \* BookManager.cache: per key the entry {data, timestamp}
    bmCalls,            \* bag of cachedFetch calls suspended on await fetchFunction()
    lastCall,           \* set when the step just taken completed a cachedFetch call: its outcome
    storedUser,         \* localStorage['literaverse_user_data'], parsed
    umCalls,            \* bag of UserManager calls suspended on an await
    lastOp,             \* set when the step just taken completed a UserManager call: its outcome
    added               \* books for which an addToFavorites call has returned

vars == <<swState, skipWaitingCalled, installFailedAt, caches, fetching, putting,
          answer, lastStored, lastPurge, queue, drains, mutation, lastHalt,
          lastSync, shown, clients, lastPush, lastClick,
          bmNow, bmCache, bmCalls, lastCall, storedUser, umCalls, lastOp, added>>

cacheVars == <<swState, skipWaitingCalled, installFailedAt, caches, fetching, putting,
               answer, lastStored, lastPurge>>
syncVars  == <<queue, drains, mutation, lastHalt, lastSync>>
notifVars == <<shown, clients, lastPush, lastClick>>
bookVars  == <<bmNow, bmCache, bmCalls, lastCall>>
userVars  == <<storedUser, umCalls, lastOp, added>>
pageVars  == <<bookVars, userVars>>

-----------------------------------------------------------------------------
(* Bounds *)

MaxInFlight == 2        \* intercepted requests suspended at the same time
MaxQueue    == 3        \* records found in pending_sync at start
MaxDrains   == 2        \* syncReadingProgress invocations alive at the same time
MaxCalls    == 2        \* cachedFetch calls suspended at the same time
MaxTicks    == 3        \* steps of the page's clock
MaxUserCalls == 2       \* UserManager calls suspended at the same time
StoredRecords == 1      \* records in pending_sync when both stores are exercised together
LiveRecords == 2        \* most records in pending_sync in the runs examined for progress

-----------------------------------------------------------------------------
(* Program constants *)

CACHE_NAME   == "literaverse-v3"
currentCache == "literaverse-v3"
SYNC_TAG     == "sync-reading-progress"
OFFLINE_URL  == "/offline.html"

urlsToCache ==
    << "/", "/index.html", "/styles.css", "/script.js", "/reader.html",
       "/dashboard.html", "/bookshelf.html", "/community.html", "/profile.html",
       "/manifest.json", "/assets/icons/icon-192x192.png",
       "/assets/icons/icon-512x512.png" >>

ManifestPaths == { urlsToCache[i] : i \in 1..Len(urlsToCache) }

-----------------------------------------------------------------------------
(* Inputs *)

\* Paths requested by pages besides the manifest: a reader page with a query
\* string (not a manifest key), an API read and the offline page itself.
OtherPaths == { "/reader.html?book=1", "/api/books", OFFLINE_URL }
Paths      == ManifestPaths \cup OtherPaths

Bodies     == { "b1", "b2" }
ManifestBody == "b1"
OldNames   == << "literaverse-v1", "literaverse-v2" >>

\* Accept header: absent, a navigation's header, a data request's header.
AcceptNone == "none"
AcceptHtml == "text/html,application/xhtml+xml"
AcceptJson == "application/json"

Req(m, s, p, a) == [method |-> m, scheme |-> s, path |-> p, accept |-> a]

Requests ==
    { Req("GET",  "https", "/index.html",          AcceptHtml),
      Req("GET",  "https", "/reader.html?book=1",  AcceptHtml),
      Req("GET",  "https", OFFLINE_URL,            AcceptHtml),
      Req("GET",  "https", "/api/books",           AcceptJson),
      Req("GET",  "https", "/api/books",           AcceptNone),
      Req("POST", "https", "/api/books",           AcceptJson),
      Req("GET",  "chrome-extension", "/api/books", AcceptJson) }

NoReq == Req("", "", "", "")

-----------------------------------------------------------------------------
(* Responses *)

Resp(t, st, b, ct) == [type |-> t, status |-> st, body |-> b, ctype |-> ct]

\* "no response": what caches.match resolves to on a miss (undefined)
Undefined == Resp("undefined", 0, "", "")

\* new Response('You are offline', {status: 503, ...})
OfflineResponse == Resp("default", 503, "You are offline", "text/plain")

\* What the network can answer: same-origin 200, same-origin error status,
\* cross-origin with CORS (status 200), cross-origin opaque (status 0).
NetworkResponses ==
    { Resp("basic", 200, b, "") : b \in Bodies }
    \cup { Resp("basic", 404, "", ""), Resp("cors", 200, "b1", ""),
           Resp("opaque", 0, "", "") }

NetworkOutcomes == NetworkResponses \cup { Undefined }   \* Undefined: fetch rejected

-----------------------------------------------------------------------------
(* Cache Storage *)

EmptyEntries == [p \in Paths |-> Undefined]

HasCache(cs, name) == \E i \in 1..Len(cs) : cs[i].name = name

CacheNames(cs) == { cs[i].name : i \in 1..Len(cs) }

Entries(cs, name) ==
    IF HasCache(cs, name)
    THEN (CHOOSE c \in { cs[i] : i \in 1..Len(cs) } : c.name = name).entries
    ELSE EmptyEntries

\* caches.open(name): creates the cache when it does not exist
Open(cs, name) ==
    IF HasCache(cs, name) THEN cs
    ELSE Append(cs, [name |-> name, entries |-> EmptyEntries])

\* Variant: the response handed to the caller is stored instead of its clone,
\* so the stored body is the already consumed one.
Put_NoClone(cs, name, path, resp) ==
    [i \in 1..Len(cs) |->
        IF cs[i].name = name
        THEN [cs[i] EXCEPT !.entries[path] = [resp EXCEPT !.body = ""]]
        ELSE cs[i]]

\* cache.put(key, response) on the cache called name
Put(cs, name, path, resp) ==
    [i \in 1..Len(cs) |->
        IF cs[i].name = name THEN [cs[i] EXCEPT !.entries[path] = resp] ELSE cs[i]]

\* caches.match(key): the entry of the first cache, in creation order, that
\* has one; Undefined when none has
Match(cs, path) ==
    LET hits == { i \in 1..Len(cs) : cs[i].entries[path] # Undefined }
    IN  IF hits = {} THEN Undefined
        ELSE cs[CHOOSE i \in hits : \A j \in hits : i <= j].entries[path]

\* Variant: the comparison is inverted, the current cache is the one deleted.
PurgeOthers_Inverted(cs, keep) == SelectSeq(cs, LAMBDA c : c.name # keep)

\* Variant: no cache is deleted.
PurgeOthers_KeepsAll(cs, keep) == cs

\* cacheName !== CACHE_NAME  =>  caches.delete(cacheName)
PurgeOthers(cs, keep) == SelectSeq(cs, LAMBDA c : c.name = keep)

\* cache.addAll(urlsToCache) once every fetch has succeeded
AddAll(cs, name, resp) ==
    [i \in 1..Len(cs) |->
        IF cs[i].name = name
        THEN [cs[i] EXCEPT !.entries =
                 [p \in Paths |-> IF p \in ManifestPaths THEN resp ELSE @[p]]]
        ELSE cs[i]]

\* Caches left behind by earlier deployments
OldCache(name) ==
    [name |-> name,
     entries |-> [p \in Paths |->
                    IF p \in {"/index.html", "/api/books"}
                    THEN Resp("basic", 200, name, "") ELSE Undefined]]

-----------------------------------------------------------------------------
(* Fetch handler: decisions *)

\* Variant: the method test is missing, only extension urls are let through.
Intercepts_AnyMethod(req) == req.scheme # "chrome-extension"

\* method === 'GET' and the url does not start with chrome-extension://
Intercepts(req) == req.method = "GET" /\ req.scheme # "chrome-extension"

\* Variant: an entry is served only while it is the first payload seen for
\* the key; a later payload is refreshed from the network.
ServesFromCache_Revalidating(matched) == matched # Undefined /\ matched.body # "b2"

\* Variant: the lookup result is ignored and the network is always asked.
ServesFromCache_NetworkFirst(matched) == FALSE

\* if (response) return response
ServesFromCache(matched) == matched # Undefined

\* Variant: no response is taken for storable, nothing is ever written.
Cacheable_Never(resp) == FALSE

\* Variant: the type test is missing, every 200 response is stored.
Cacheable_AnyType(resp) == ~(resp = Undefined \/ resp.status # 200)

\* !( !response || response.status !== 200 || response.type !== 'basic' )
Cacheable(resp) == ~(resp = Undefined \/ resp.status # 200 \/ resp.type # "basic")

\* headers.get('accept') is null when the header is absent
HasAccept(req) == req.accept # AcceptNone

\* event.request.headers.get('accept').includes('text/html')
AcceptsHtml(req) == req.accept = AcceptHtml

\* The .catch() of the network call.  Reading .includes of a null header
\* throws inside the catch callback, so the promise given to respondWith
\* rejects; a document request resolves to whatever caches.match finds for
\* the offline page, which is undefined when no cache holds it.
FallbackFaults(req) == ~HasAccept(req)

\* Variant: every failed request is answered like a document request.
FallbackResponse_AlwaysPage(cs, req) ==
    IF FallbackFaults(req) THEN Undefined ELSE Match(cs, OFFLINE_URL)

FallbackResponse(cs, req) ==
    IF FallbackFaults(req) THEN Undefined
    ELSE IF AcceptsHtml(req) THEN Match(cs, OFFLINE_URL)
    ELSE OfflineResponse

\* What is known of an answered fetch event: the request, what the cache
\* lookup resolved to (matched), what the fetch handler had stored for the
\* key when the lookup ran (stored), whether respondWith was called, the
\* response its promise resolved to, the network calls the handler issued,
\* whether the call failed, whether the promise rejected (fault) and whether
\* the cache lookup itself rejected (storeFailed).
Answer(req, matched, stored, responded, response, netCalls, netFailed, fault, storeFailed) ==
    [valid |-> TRUE, req |-> req, matched |-> matched, stored |-> stored,
     responded |-> responded, response |-> response, netCalls |-> netCalls,
     netFailed |-> netFailed, fault |-> fault, storeFailed |-> storeFailed]

NoAnswer ==
    [valid |-> FALSE, req |-> NoReq, matched |-> Undefined, stored |-> Undefined,
     responded |-> FALSE, response |-> Undefined, netCalls |-> 0,
     netFailed |-> FALSE, fault |-> FALSE, storeFailed |-> FALSE]

NoPurge == [ran |-> FALSE, deleted |-> {}]

InFlight == BagCardinality(fetching) + Cardinality(putting)

-----------------------------------------------------------------------------
(* Worker lifecycle *)

\* Variant: a failed manifest fetch does not reject the install chain.
AddAllResolves_Always(k) == TRUE

\* cache.addAll resolves only when every resource was fetched; k is the
\* index of the manifest resource whose fetch fails, 0 when none does
AddAllResolves(k) == k = 0

\* install: caches.open(CACHE_NAME).then(addAll).then(skipWaiting), run for a
\* worker that is new or replaces one whose install failed (register() is
\* called on every page load)
Install(k) ==
    /\ swState \in {"parsed", "redundant"}
    /\ caches' = IF AddAllResolves(k)
                 THEN AddAll(Open(caches, CACHE_NAME), CACHE_NAME,
                             Resp("basic", 200, ManifestBody, ""))
                 ELSE Open(caches, CACHE_NAME)
    /\ skipWaitingCalled' = AddAllResolves(k)
    /\ installFailedAt' = k
    /\ swState' = IF AddAllResolves(k) THEN "installed" ELSE "redundant"
    /\ lastPurge' = NoPurge
    /\ UNCHANGED <<fetching, putting, answer, lastStored>>
    /\ UNCHANGED syncVars
    /\ UNCHANGED notifVars
    /\ UNCHANGED pageVars

\* Variant: activation also wipes the pending_sync store.
Activate_ClearsQueue ==
    /\ swState = "installed"
    /\ skipWaitingCalled
    /\ caches' = PurgeOthers(caches, CACHE_NAME)
    /\ lastPurge' = [ran |-> TRUE, deleted |-> CacheNames(caches) \ CacheNames(caches')]
    /\ swState' = "activated"
    /\ queue' = << >>
    /\ UNCHANGED <<skipWaitingCalled, installFailedAt, fetching, putting, answer, lastStored>>
    /\ UNCHANGED <<drains, mutation, lastHalt, lastSync>>
    /\ UNCHANGED notifVars
    /\ UNCHANGED pageVars

\* activate: delete every cache whose name is not CACHE_NAME, then claim
Activate ==
    /\ swState = "installed"
    /\ skipWaitingCalled
    /\ caches' = PurgeOthers(caches, CACHE_NAME)
    /\ lastPurge' = [ran |-> TRUE, deleted |-> CacheNames(caches) \ CacheNames(caches')]
    /\ swState' = "activated"
    /\ UNCHANGED <<skipWaitingCalled, installFailedAt, fetching, putting, answer, lastStored>>
    /\ UNCHANGED syncVars
    /\ UNCHANGED notifVars
    /\ UNCHANGED pageVars

\* Variant: the daily cleanup also empties the pending_sync store.
CleanupCache_ClearsQueue ==
    /\ caches' = PurgeOthers(caches, currentCache)
    /\ lastPurge' = [ran |-> TRUE, deleted |-> CacheNames(caches) \ CacheNames(caches')]
    /\ queue' = << >>
    /\ UNCHANGED <<swState, skipWaitingCalled, installFailedAt, fetching, putting,
                   answer, lastStored>>
    /\ UNCHANGED <<drains, mutation, lastHalt, lastSync>>
    /\ UNCHANGED notifVars
    /\ UNCHANGED pageVars

\* LiteraVerse.cleanupCache (page, daily timer)
CleanupCache ==
    /\ caches' = PurgeOthers(caches, currentCache)
    /\ lastPurge' = [ran |-> TRUE, deleted |-> CacheNames(caches) \ CacheNames(caches')]
    /\ UNCHANGED <<swState, skipWaitingCalled, installFailedAt, fetching, putting,
                   answer, lastStored>>
    /\ UNCHANGED syncVars
    /\ UNCHANGED notifVars
    /\ UNCHANGED pageVars

-----------------------------------------------------------------------------
(* Fetch handler *)

\* The synchronous part of the handler and the cache lookup.  storeOk:
\* caches.match resolved; when it rejects, no callback of the chain runs (the
\* only .catch hangs on the inner fetch chain) and the promise given to
\* respondWith rejects.
FetchEvent(req, storeOk) ==
    /\ swState = "activated"
    /\ lastPurge' = NoPurge
    /\ LET matched == Match(caches, req.path)
           stored  == lastStored[req.path]
       IN
       IF ~Intercepts(req)
       THEN /\ answer' = Answer(req, Undefined, Undefined, FALSE, Undefined, 0, FALSE,
                                FALSE, FALSE)
            /\ UNCHANGED fetching
       ELSE IF ~storeOk
       THEN /\ answer' = Answer(req, Undefined, stored, TRUE, Undefined, 0, FALSE,
                                TRUE, TRUE)
            /\ UNCHANGED fetching
       ELSE IF ServesFromCache(matched)
       THEN /\ answer' = Answer(req, matched, stored, TRUE, matched, 0, FALSE, FALSE, FALSE)
            /\ UNCHANGED fetching
       ELSE /\ InFlight < MaxInFlight
            /\ fetching' = fetching (+) SetToBag({[req |-> req, matched |-> matched,
                                                   stored |-> stored]})
            /\ UNCHANGED answer
    /\ UNCHANGED <<swState, skipWaitingCalled, installFailedAt, caches, putting, lastStored>>
    /\ UNCHANGED syncVars
    /\ UNCHANGED notifVars
    /\ UNCHANGED pageVars

\* fetch(fetchRequest) settles: .then() on a response, .catch() on a rejection
NetworkReply(f, out) ==
    /\ BagIn(f, fetching)
    /\ fetching' = fetching (-) SetToBag({f})
    /\ lastPurge' = NoPurge
    /\ IF out = Undefined
       THEN /\ answer' = Answer(f.req, f.matched, f.stored, TRUE,
                                FallbackResponse(caches, f.req), 1, TRUE,
                                FallbackFaults(f.req), FALSE)
            /\ UNCHANGED putting
       ELSE IF ~Cacheable(out)
       THEN /\ answer' = Answer(f.req, f.matched, f.stored, TRUE, out, 1, FALSE, FALSE, FALSE)
            /\ UNCHANGED putting
       ELSE /\ answer' = Answer(f.req, f.matched, f.stored, TRUE, out, 1, FALSE, FALSE, FALSE)
            /\ putting' = putting \cup { [path |-> f.req.path, toCache |-> out] }
    /\ UNCHANGED <<swState, skipWaitingCalled, installFailedAt, caches, lastStored>>
    /\ UNCHANGED syncVars
    /\ UNCHANGED notifVars
    /\ UNCHANGED pageVars

\* Variant: the write goes to a cache named after the previous generation.
CachePut_PreviousGeneration(w) ==
    /\ w \in putting
    /\ putting' = putting \ {w}
    /\ caches' = Put(Open(caches, OldNames[2]), OldNames[2], w.path, w.toCache)
    /\ lastStored' = [lastStored EXCEPT ![w.path] = w.toCache]
    /\ lastPurge' = NoPurge
    /\ UNCHANGED <<swState, skipWaitingCalled, installFailedAt, fetching, answer>>
    /\ UNCHANGED syncVars
    /\ UNCHANGED notifVars
    /\ UNCHANGED pageVars

\* caches.open(CACHE_NAME).then(cache => cache.put(event.request, responseToCache))
CachePut(w) ==
    /\ w \in putting
    /\ putting' = putting \ {w}
    /\ caches' = Put(Open(caches, CACHE_NAME), CACHE_NAME, w.path, w.toCache)
    /\ lastStored' = [lastStored EXCEPT ![w.path] = w.toCache]
    /\ lastPurge' = NoPurge
    /\ UNCHANGED <<swState, skipWaitingCalled, installFailedAt, fetching, answer>>
    /\ UNCHANGED syncVars
    /\ UNCHANGED notifVars
    /\ UNCHANGED pageVars

-----------------------------------------------------------------------------
(* pending_sync queue and its drain *)

QueueIds(q) == { q[i].id : i \in 1..Len(q) }

\* Variant: the delete request never takes effect.
DbDelete_Keeps(q, id) == q

\* db.delete('pending_sync', id)
DbDelete(q, id) == SelectSeq(q, LAMBDA r : r.id # id)

SyncTags == { SYNC_TAG, "sync-other" }

ReplayOutcomes == { "ok", "httpError", "netError" }

\* await fetch(...) resolves for every HTTP status and rejects only on a
\* network error
ReplayResolves(out) == out # "netError"

\* JSON.stringify of a record's data
JSONstringify(d) == <<"json", d>>

\* fetch(item.url, {method: 'POST', headers: {'Content-Type': 'application/json'},
\*                  body: JSON.stringify(item.data)})
ReplayRequest(item) ==
    [url |-> item.url, method |-> "POST", ctype |-> "application/json",
     body |-> JSONstringify(item.data)]

\* The locals of one running syncReadingProgress invocation: the snapshot
\* pendingSync, the position of the loop, the outcomes of the replays made so
\* far, the requests issued for them, and where it is suspended: replay
\* (about to fetch pending[idx]) or delete (about to delete pending[idx]).
\* They are gone when it returns.
Drain(pc, pending, idx, log, sent) ==
    [pc |-> pc, pending |-> pending, idx |-> idx, log |-> log, sent |-> sent]

\* Variant: every sync event starts the drain, whatever its tag.
StartsDrain_AnyTag(tag) == TRUE

\* event.tag === 'sync-reading-progress'
StartsDrain(tag) == tag = SYNC_TAG

\* The latest step was no sync event with a foreign tag.
NoSync == ""

\* sync event: the drain starts for the tag sync-reading-progress only, with
\* pendingSync = await db.getAll('pending_sync'); on an empty snapshot the
\* loop body never runs
SyncEvent(tag) ==
    /\ swState = "activated"
    /\ lastSync' = IF tag = SYNC_TAG THEN NoSync ELSE tag
    /\ IF StartsDrain(tag) /\ queue # << >>
       THEN /\ BagCardinality(drains) < MaxDrains
            /\ drains' = drains (+) SetToBag({ Drain("replay", queue, 1, << >>, << >>) })
       ELSE UNCHANGED drains
    /\ UNCHANGED <<queue, mutation, lastHalt>>
    /\ UNCHANGED cacheVars
    /\ UNCHANGED notifVars
    /\ UNCHANGED pageVars

\* await fetch(item.url, {method: 'POST', ...}) for the current item; a
\* rejection is caught outside the loop and ends the drain
DrainReplay(r, out) ==
    /\ BagIn(r, drains)
    /\ r.pc = "replay"
    /\ drains' = IF ReplayResolves(out)
                 THEN (drains (-) SetToBag({r}))
                      (+) SetToBag({ Drain("delete", r.pending, r.idx, Append(r.log, out),
                                            Append(r.sent, ReplayRequest(r.pending[r.idx]))) })
                 ELSE drains (-) SetToBag({r})
    /\ lastHalt' = IF ReplayResolves(out) THEN lastHalt ELSE r.pending[r.idx].id
    /\ lastSync' = NoSync
    /\ UNCHANGED <<queue, mutation>>
    /\ UNCHANGED cacheVars
    /\ UNCHANGED notifVars
    /\ UNCHANGED pageVars

\* await db.delete('pending_sync', item.id), then the next item
DrainDelete(r) ==
    /\ BagIn(r, drains)
    /\ r.pc = "delete"
    /\ queue' = DbDelete(queue, r.pending[r.idx].id)
    /\ drains' = IF r.idx + 1 > Len(r.pending)
                 THEN drains (-) SetToBag({r})
                 ELSE (drains (-) SetToBag({r}))
                      (+) SetToBag({ Drain("replay", r.pending, r.idx + 1, r.log, r.sent) })
    /\ lastSync' = NoSync
    /\ UNCHANGED <<mutation, lastHalt>>
    /\ UNCHANGED cacheVars
    /\ UNCHANGED notifVars
    /\ UNCHANGED pageVars

\* UserManager.syncReadingProgress(progress): a POST issued by the page when
\* navigator.onLine; the worker's fetch handler does not intercept it, so it
\* goes to the network, and a failure is caught and logged
UM_syncReadingProgress(online, out) ==
    /\ LET req  == Req("POST", "https", "/progress/sync", AcceptJson)
           sent == online /\ ~Intercepts(req)
       IN /\ queue' = queue
          /\ mutation' = [issued |-> sent, failed |-> sent /\ out = "netError",
                          queued |-> Len(queue') - Len(queue)]
    /\ lastSync' = NoSync
    /\ UNCHANGED <<drains, lastHalt>>
    /\ UNCHANGED cacheVars
    /\ UNCHANGED notifVars
    /\ UNCHANGED pageVars

-----------------------------------------------------------------------------
(* Push and notificationclick handlers *)

\* The value of a property that an object does not have (undefined); as
\* a string it reads "undefined", which is what a template literal and the
\* title argument of showNotification make of it.
Missing == "undefined"

\* A parsed push payload.  A property that is absent holds Missing;
\* hasActions tells whether the payload has an actions array.
Payload(title, body, id, hasActions, actions) ==
    [title |-> title, body |-> body, id |-> id, hasActions |-> hasActions,
     actions |-> actions]

EmptyPayload == Payload(Missing, Missing, Missing, FALSE, << >>)

Payloads ==
    { Payload("T", "B", "42", FALSE, << >>),
      Payload("T", "B", "42", TRUE, << "open_book", "view_notifications" >>),
      Payload("T2", "B2", "7", TRUE, << "dismiss" >>),
      EmptyPayload }

\* event.data: null, a text that is not JSON, or the JSON text of a payload
PushData ==
    { [kind |-> "none", payload |-> EmptyPayload],
      [kind |-> "malformed", payload |-> EmptyPayload] }
    \cup { [kind |-> "json", payload |-> pl] : pl \in Payloads }

\* event.data.json() returns the parsed value and throws on a text that is
\* not JSON
JsonParses(d) == d.kind = "json"

\* Date.now()
Now == "now"

\* Variant: the notification keeps the arrival time only.
DisplayRequest_NoKey(data) ==
    [title |-> data.title,
     body |-> IF data.body = Missing THEN "" ELSE data.body,
     data |-> [dateOfArrival |-> Now, primaryKey |-> Missing],
     actions |-> IF data.hasActions THEN data.actions ELSE << >>]

\* showNotification(data.title, {body: data.body, ..., data: {dateOfArrival,
\* primaryKey: data.id}, actions: data.actions || []}); an undefined body is
\* the dictionary default "", an undefined title the string "undefined"
DisplayRequest(data) ==
    [title |-> data.title,
     body |-> IF data.body = Missing THEN "" ELSE data.body,
     data |-> [dateOfArrival |-> Now, primaryKey |-> data.id],
     actions |-> IF data.hasActions THEN data.actions ELSE << >>]

NoRequest == DisplayRequest(EmptyPayload)

\* What is known of a handled push event: its data, the number of
\* showNotification calls, the request of the call and whether the handler
\* threw.
NoPush == [valid |-> FALSE, data |-> [kind |-> "none", payload |-> EmptyPayload],
           shows |-> 0, request |-> NoRequest, fault |-> FALSE]

\* Variant: the guard on event.data is missing.
PushReturnsEarly_Never(d) == FALSE

\* if (!event.data) return
PushReturnsEarly(d) == d.kind = "none"

\* push event handler
PushEvent(d) ==
    /\ swState = "activated"
    /\ IF PushReturnsEarly(d)
       THEN /\ lastPush' = [valid |-> TRUE, data |-> d, shows |-> 0,
                            request |-> NoRequest, fault |-> FALSE]
            /\ UNCHANGED shown
       ELSE IF ~JsonParses(d)
       THEN /\ lastPush' = [valid |-> TRUE, data |-> d, shows |-> 0,
                            request |-> NoRequest, fault |-> TRUE]
            /\ UNCHANGED shown
       ELSE /\ lastPush' = [valid |-> TRUE, data |-> d, shows |-> 1,
                            request |-> DisplayRequest(d.payload), fault |-> FALSE]
            /\ shown' = shown \cup { DisplayRequest(d.payload) }
    /\ UNCHANGED <<clients, lastClick>>
    /\ UNCHANGED cacheVars
    /\ UNCHANGED syncVars
    /\ UNCHANGED pageVars

\* A url: origin "" when it is relative, as the worker writes it.
Url(origin, base, arg) == [origin |-> origin, base |-> base, arg |-> arg]

Origin == "https://literaverse.app"

NoUrl == Url("", "", "")

\* The url of a window client is absolute.
ClientUrl(base, arg) == Url(Origin, base, arg)

\* clients.openWindow(url) resolves the url against the worker's origin
Resolve(u) == [u EXCEPT !.origin = Origin]

\* data.bookId and the like: the property, or undefined
Field(rec, name) == IF name \in DOMAIN rec THEN rec[name] ELSE Missing

\* Variant: an unknown action falls back to the notifications view.
ActionTarget_Default(action, data) ==
    IF action = "open_book" THEN Url("", "/reader.html?book=", Field(data, "bookId"))
    ELSE Url("", "/#notifications", "")

\* handleNotificationAction: the url it opens, NoUrl when it opens none
ActionTarget(action, data) ==
    IF action = "open_book" THEN Url("", "/reader.html?book=", Field(data, "bookId"))
    ELSE IF action = "view_notifications" THEN Url("", "/#notifications", "")
    ELSE NoUrl

\* client.url === '/'
IsDefaultLocation(u) == u = Url("", "/", "")

\* The action buttons of a notification; "" stands for a click on its body.
ClickActions(n) == { "" } \cup { n.actions[i] : i \in 1..Len(n.actions) }

NoClick == [valid |-> FALSE, action |-> "", notification |-> NoRequest,
            closed |-> FALSE, focused |-> NoUrl, opened |-> NoUrl,
            clientsBefore |-> {}]

\* notificationclick event handler; clientsBefore is what clients.matchAll
\* listed
NotificationClick(n, action) ==
    /\ swState = "activated"
    /\ n \in shown
    /\ action \in ClickActions(n)
    /\ shown' = shown \ {n}
    /\ LET focusable == { c \in clients : IsDefaultLocation(c) }
           focused   == IF action = "" /\ focusable # {}
                        THEN CHOOSE c \in focusable : TRUE ELSE NoUrl
           opened    == IF action # "" THEN ActionTarget(action, n.data)
                        ELSE IF focusable = {} THEN Url("", "/", "") ELSE NoUrl
       IN /\ clients' = IF opened = NoUrl THEN clients
                         ELSE clients \cup { Resolve(opened) }
          /\ lastClick' = [valid |-> TRUE, action |-> action, notification |-> n,
                           closed |-> TRUE, focused |-> focused, opened |-> opened,
                           clientsBefore |-> clients]
    /\ UNCHANGED lastPush
    /\ UNCHANGED cacheVars
    /\ UNCHANGED syncVars
    /\ UNCHANGED pageVars

-----------------------------------------------------------------------------
(* BookManager (page): cachedFetch *)

\* this.cacheDuration = 5 * 60 * 1000
cacheDuration == 5 * 60 * 1000

\* The clock advances in steps of half the cache duration, so that entries
\* younger than, exactly as old as, and older than cacheDuration all occur.
TickMs == 150000

\* Cache keys: getBook('1') and getCategories()
BmKeys == { "book_1", "categories" }

\* What a fetch function resolves to
BmData == { "d1", "d2" }

\* A fetch function resolves to data or rejects
FetchOutcomes == BmData \cup { "error" }

\* this.cache.get(key) when the map has no entry for the key (undefined)
NoEntry == [present |-> FALSE, data |-> "", timestamp |-> 0]

\* { data, timestamp }
Entry(data, timestamp) == [present |-> TRUE, data |-> data, timestamp |-> timestamp]

\* Variant: an entry never expires.
IsFresh_NoExpiry(cached, now) == cached.present

\* cached && (now - cached.timestamp < this.cacheDuration)
IsFresh(cached, now) == cached.present /\ now - cached.timestamp < cacheDuration

\* What is known of a completed cachedFetch call: its key, the entry and
\* the time it read when it started, whether it called the fetch function,
\* whether that function failed, the data the call returned, and whether
\* the call threw instead.
Call(key, cached, now, called, failed, returned, threw) ==
    [valid |-> TRUE, key |-> key, cached |-> cached, now |-> now, called |-> called,
     failed |-> failed, returned |-> returned, threw |-> threw]

NoCall ==
    [valid |-> FALSE, key |-> "", cached |-> NoEntry, now |-> 0, called |-> FALSE,
     failed |-> FALSE, returned |-> "", threw |-> FALSE]

\* Time passes on the page.
Tick ==
    /\ bmNow < MaxTicks * TickMs
    /\ bmNow' = bmNow + TickMs
    /\ lastCall' = NoCall
    /\ UNCHANGED <<bmCache, bmCalls>>
    /\ UNCHANGED userVars
    /\ UNCHANGED cacheVars
    /\ UNCHANGED syncVars
    /\ UNCHANGED notifVars

\* cachedFetch(key, fetchFunction) up to its return of the cached data or
\* its suspension on await fetchFunction()
CachedFetch(key) ==
    /\ LET cached == bmCache[key]
           now    == bmNow
       IN  IF IsFresh(cached, now)
           THEN /\ lastCall' = Call(key, cached, now, FALSE, FALSE, cached.data, FALSE)
                /\ UNCHANGED bmCalls
           ELSE /\ BagCardinality(bmCalls) < MaxCalls
                /\ bmCalls' = bmCalls (+) SetToBag({[key |-> key, cached |-> cached,
                                                     now |-> now]})
                /\ lastCall' = NoCall
    /\ UNCHANGED <<bmNow, bmCache>>
    /\ UNCHANGED userVars
    /\ UNCHANGED cacheVars
    /\ UNCHANGED syncVars
    /\ UNCHANGED notifVars

\* Variant: a failed fetch drops the entry of the key.
FetchSettles_DropsOnError(c, out) ==
    /\ BagIn(c, bmCalls)
    /\ bmCalls' = bmCalls (-) SetToBag({c})
    /\ IF out # "error"
       THEN /\ bmCache' = [bmCache EXCEPT ![c.key] = Entry(out, c.now)]
            /\ lastCall' = Call(c.key, c.cached, c.now, TRUE, FALSE, out, FALSE)
       ELSE /\ bmCache' = [bmCache EXCEPT ![c.key] = NoEntry]
            /\ lastCall' = IF c.cached.present
                           THEN Call(c.key, c.cached, c.now, TRUE, TRUE, c.cached.data, FALSE)
                           ELSE Call(c.key, c.cached, c.now, TRUE, TRUE, "", TRUE)
    /\ UNCHANGED bmNow
    /\ UNCHANGED userVars
    /\ UNCHANGED cacheVars
    /\ UNCHANGED syncVars
    /\ UNCHANGED notifVars

\* await fetchFunction() settles: the try block stores and returns the data,
\* the catch block returns the entry read at the start or rethrows
FetchSettles(c, out) ==
    /\ BagIn(c, bmCalls)
    /\ bmCalls' = bmCalls (-) SetToBag({c})
    /\ IF out # "error"
       THEN /\ bmCache' = [bmCache EXCEPT ![c.key] = Entry(out, c.now)]
            /\ lastCall' = Call(c.key, c.cached, c.now, TRUE, FALSE, out, FALSE)
       ELSE /\ UNCHANGED bmCache
            /\ lastCall' = IF c.cached.present
                           THEN Call(c.key, c.cached, c.now, TRUE, TRUE, c.cached.data, FALSE)
                           ELSE Call(c.key, c.cached, c.now, TRUE, TRUE, "", TRUE)
    /\ UNCHANGED bmNow
    /\ UNCHANGED userVars
    /\ UNCHANGED cacheVars
    /\ UNCHANGED syncVars
    /\ UNCHANGED notifVars

-----------------------------------------------------------------------------
(* UserManager (page): updateUser and the favourites *)

Books == { "1", "2" }

Themes == { "system", "dark" }

\* The parsed user record: its role, its preferences (of which the theme is
\* kept) and its favourites.  hasFavorites tells whether the object has a
\* favorites property (the guest user is created without one).
User(role, theme, hasFavorites, favorites) ==
    [role |-> role, theme |-> theme, hasFavorites |-> hasFavorites,
     favorites |-> favorites]

\* createGuestUser()
GuestUser == User("guest", "system", FALSE, << >>)

\* The users found in localStorage when the page calls the manager: the
\* guest user, or a signed-in reader with or without favourites
InitialUsers ==
    { GuestUser,
      User("reader", "system", FALSE, << >>),
      User("reader", "system", TRUE, << "1" >>) }

\* user?.favorites || []
Favorites(user) == IF user.hasFavorites THEN user.favorites ELSE << >>

\* favorites.includes(bookId)
Includes(favorites, bookId) == \E i \in 1..Len(favorites) : favorites[i] = bookId

\* isBookFavorite(bookId) on the stored user
IsBookFavorite(user, bookId) == Includes(Favorites(user), bookId)

\* favorites.filter(id => id !== bookId)
Without(favorites, bookId) == SelectSeq(favorites, LAMBDA id : id # bookId)

\* The updates object given to updateUser: the properties it has and their
\* values.
Updates(hasTheme, theme, hasFavs, favorites) ==
    [hasTheme |-> hasTheme, theme |-> theme, hasFavs |-> hasFavs, favorites |-> favorites]

NoUpdates == Updates(FALSE, "", FALSE, << >>)

\* { favorites: updated }
FavoritesUpdate(updated) == Updates(FALSE, "", TRUE, updated)

\* { preferences: {..., theme} }, an update of a property other than the
\* favourites
ThemeUpdate(theme) == Updates(TRUE, theme, FALSE, << >>)

\* { ...currentUser, ...updates }
Merge(user, updates) ==
    User(user.role,
         IF updates.hasTheme THEN updates.theme ELSE user.theme,
         user.hasFavorites \/ updates.hasFavs,
         IF updates.hasFavs THEN updates.favorites ELSE user.favorites)

\* favorites.includes(bookId) in addToFavorites
AlreadyFavorite(favorites, bookId) == Includes(favorites, bookId)

\* The locals of a suspended UserManager call that are still read after the
\* suspension: the operation and its book, where it is suspended, and there
\* the user it read: decide (on the getCurrentUser of the favourites method;
\* user is what that call read), save (on the getCurrentUser of updateUser;
\* user is currentUser, with the updates) or put (on the fetch of the PUT
\* request; user is currentUser).
UserCall(op, book, pc, user, updates) ==
    [op |-> op, book |-> book, pc |-> pc, user |-> user, updates |-> updates]

\* What is known of a completed UserManager call: the operation, its book,
\* the updates it gave to updateUser, whether it saved the user, whether it
\* issued the PUT request, whether that request was rejected, and whether
\* the call threw.
Op(op, book, updates, didSave, sent, rejected, threw) ==
    [valid |-> TRUE, op |-> op, book |-> book, updates |-> updates,
     didSave |-> didSave, sent |-> sent, rejected |-> rejected, threw |-> threw]

NoOp ==
    [valid |-> FALSE, op |-> "", book |-> "", updates |-> NoUpdates,
     didSave |-> FALSE, sent |-> FALSE, rejected |-> FALSE, threw |-> FALSE]

UserCalls == BagCardinality(umCalls)

\* addToFavorites(bookId) up to await this.getCurrentUser(): the user is read
\* from localStorage before the call is suspended
AddToFavorites(bookId) ==
    /\ UserCalls < MaxUserCalls
    /\ umCalls' = umCalls (+) SetToBag({ UserCall("add", bookId, "decide", storedUser,
                                                  NoUpdates) })
    /\ lastOp' = NoOp
    /\ UNCHANGED <<storedUser, added>>
    /\ UNCHANGED bookVars
    /\ UNCHANGED cacheVars
    /\ UNCHANGED syncVars
    /\ UNCHANGED notifVars

\* removeFromFavorites(bookId) up to await this.getCurrentUser()
RemoveFromFavorites(bookId) ==
    /\ UserCalls < MaxUserCalls
    /\ umCalls' = umCalls (+) SetToBag({ UserCall("remove", bookId, "decide", storedUser,
                                                  NoUpdates) })
    /\ lastOp' = NoOp
    /\ UNCHANGED <<storedUser, added>>
    /\ UNCHANGED bookVars
    /\ UNCHANGED cacheVars
    /\ UNCHANGED syncVars
    /\ UNCHANGED notifVars

\* updateUser(updates) called by the page, up to await this.getCurrentUser()
UpdateUser(updates) ==
    /\ UserCalls < MaxUserCalls
    /\ umCalls' = umCalls (+) SetToBag({ UserCall("update", "", "save", storedUser,
                                                  updates) })
    /\ lastOp' = NoOp
    /\ UNCHANGED <<storedUser, added>>
    /\ UNCHANGED bookVars
    /\ UNCHANGED cacheVars
    /\ UNCHANGED syncVars
    /\ UNCHANGED notifVars

\* The favourites method resumes: addToFavorites returns when the book is in
\* the list it read; otherwise the new list is computed from that list and
\* updateUser is called, which reads the stored user and is suspended
FavoritesDecide(c) ==
    /\ BagIn(c, umCalls)
    /\ c.pc = "decide"
    /\ LET favorites == Favorites(c.user)
           updated   == IF c.op = "add" THEN Append(favorites, c.book)
                        ELSE Without(favorites, c.book)
       IN  IF c.op = "add" /\ AlreadyFavorite(favorites, c.book)
           THEN /\ umCalls' = umCalls (-) SetToBag({c})
                /\ lastOp' = Op(c.op, c.book, NoUpdates, FALSE, FALSE, FALSE, FALSE)
                /\ added' = added \cup {c.book}
           ELSE /\ umCalls' = (umCalls (-) SetToBag({c}))
                              (+) SetToBag({ UserCall(c.op, c.book, "save", storedUser,
                                                      FavoritesUpdate(updated)) })
                /\ lastOp' = NoOp
                /\ UNCHANGED added
    /\ UNCHANGED storedUser
    /\ UNCHANGED bookVars
    /\ UNCHANGED cacheVars
    /\ UNCHANGED syncVars
    /\ UNCHANGED notifVars

\* updateUser resumes: the merged user is saved, then the PUT request is
\* issued when navigator.onLine and the user read is not a guest; otherwise
\* updateUser returns
UserSave(c, onLine) ==
    /\ BagIn(c, umCalls)
    /\ c.pc = "save"
    /\ LET updatedUser == Merge(c.user, c.updates)
       IN  /\ storedUser' = updatedUser
           /\ IF onLine /\ c.user.role # "guest"
              THEN /\ umCalls' = (umCalls (-) SetToBag({c}))
                                 (+) SetToBag({ UserCall(c.op, c.book, "put", c.user,
                                                         c.updates) })
                   /\ lastOp' = NoOp
                   /\ UNCHANGED added
              ELSE /\ umCalls' = umCalls (-) SetToBag({c})
                   /\ lastOp' = Op(c.op, c.book, c.updates, TRUE, FALSE, FALSE, FALSE)
                   /\ added' = IF c.op = "add" THEN added \cup {c.book} ELSE added
    /\ UNCHANGED bookVars
    /\ UNCHANGED cacheVars
    /\ UNCHANGED syncVars
    /\ UNCHANGED notifVars

\* Variant: a rejected PUT request puts back the user read before the save.
UserPutSettles_RollsBack(c, out) ==
    /\ BagIn(c, umCalls)
    /\ c.pc = "put"
    /\ umCalls' = umCalls (-) SetToBag({c})
    /\ lastOp' = Op(c.op, c.book, c.updates, TRUE, TRUE, ~ReplayResolves(out),
                    ~ReplayResolves(out))
    /\ added' = IF c.op = "add" /\ ReplayResolves(out) THEN added \cup {c.book} ELSE added
    /\ storedUser' = IF ReplayResolves(out) THEN storedUser ELSE c.user
    /\ UNCHANGED bookVars
    /\ UNCHANGED cacheVars
    /\ UNCHANGED syncVars
    /\ UNCHANGED notifVars

\* await fetch(`${apiUrl}/user`, {method: 'PUT', ...}) settles: a response of
\* any status lets updateUser return; a rejection is logged and rethrown, by
\* updateUser and by the favourites method that called it
UserPutSettles(c, out) ==
    /\ BagIn(c, umCalls)
    /\ c.pc = "put"
    /\ umCalls' = umCalls (-) SetToBag({c})
    /\ lastOp' = Op(c.op, c.book, c.updates, TRUE, TRUE, ~ReplayResolves(out),
                    ~ReplayResolves(out))
    /\ added' = IF c.op = "add" /\ ReplayResolves(out) THEN added \cup {c.book} ELSE added
    /\ UNCHANGED storedUser
    /\ UNCHANGED bookVars
    /\ UNCHANGED cacheVars
    /\ UNCHANGED syncVars
    /\ UNCHANGED notifVars

-----------------------------------------------------------------------------
(* Specifications *)

InitCaches ==
    caches \in { << >>,
                 << OldCache(OldNames[2]) >>,
                 << OldCache(OldNames[1]), OldCache(OldNames[2]) >> }

\* The record kept for the i-th deferred call: its key, its endpoint, the
\* method of the call and its payload.  The calls are the page's progress
\* POSTs and, second in the queue, a profile update, which is a PUT.
PendingRecord(i) ==
    [id |-> i,
     url |-> IF i = 2 THEN "/user" ELSE "/progress/sync",
     method |-> IF i = 2 THEN "PUT" ELSE "POST",
     data |-> i]

InitQueue(n) == queue = [i \in 1..n |-> PendingRecord(i)]

InitCommon ==
    /\ skipWaitingCalled = FALSE
    /\ installFailedAt = 0
    /\ fetching = EmptyBag
    /\ putting = {}
    /\ answer = NoAnswer
    /\ lastStored = [p \in Paths |-> Undefined]
    /\ lastPurge = NoPurge
    /\ drains = EmptyBag
    /\ mutation = [issued |-> FALSE, failed |-> FALSE, queued |-> 0]
    /\ lastHalt = 0
    /\ lastSync = NoSync
    /\ shown = {}
    /\ lastPush = NoPush
    /\ lastClick = NoClick
    /\ bmNow = 0
    /\ bmCache = [k \in BmKeys |-> NoEntry]
    /\ bmCalls = EmptyBag
    /\ lastCall = NoCall
    /\ umCalls = EmptyBag
    /\ lastOp = NoOp
    /\ added = {}

\* A freshly registered worker; Cache Storage may hold the caches of earlier
\* deployments; pending_sync is empty.  In Spec Cache Storage answers every
\* lookup; SpecStoreFaults below lets a lookup be rejected.
Init ==
    /\ InitCommon
    /\ storedUser = GuestUser
    /\ clients = {}
    /\ swState = "parsed"
    /\ InitCaches
    /\ InitQueue(0)

Next ==
    \/ \E k \in 0..Len(urlsToCache) : Install(k)
    \/ Activate
    \/ CleanupCache
    \/ \E req \in Requests : FetchEvent(req, TRUE)
    \/ \E f \in BagToSet(fetching), out \in NetworkOutcomes : NetworkReply(f, out)
    \/ \E w \in putting : CachePut(w)

Spec == Init /\ [][Next]_vars

\* The same worker on a browser whose Cache Storage may reject a lookup
\* (storage unavailable).
NextStoreFaults ==
    \/ \E k \in 0..Len(urlsToCache) : Install(k)
    \/ Activate
    \/ CleanupCache
    \/ \E req \in Requests, storeOk \in BOOLEAN : FetchEvent(req, storeOk)
    \/ \E f \in BagToSet(fetching), out \in NetworkOutcomes : NetworkReply(f, out)
    \/ \E w \in putting : CachePut(w)

SpecStoreFaults == Init /\ [][NextStoreFaults]_vars

\* The active worker with records waiting in pending_sync (the store is
\* persistent and is found as it was left).
InitSync ==
    /\ InitCommon
    /\ storedUser = GuestUser
    /\ clients = {}
    /\ swState = "activated"
    /\ caches = << [name |-> CACHE_NAME, entries |-> EmptyEntries] >>
    /\ \E n \in 0..MaxQueue : InitQueue(n)

NextSync ==
    \/ \E tag \in SyncTags : SyncEvent(tag)
    \/ \E r \in BagToSet(drains), out \in ReplayOutcomes : DrainReplay(r, out)
    \/ \E r \in BagToSet(drains) : DrainDelete(r)
    \/ \E online \in BOOLEAN, out \in ReplayOutcomes : UM_syncReadingProgress(online, out)

SpecSync == InitSync /\ [][NextSync]_vars

\* The same handlers with the progress the event loop guarantees: a fetch
\* that was issued settles and a delete request that was issued completes,
\* so a suspended drain is resumed.
InitLive ==
    /\ InitCommon
    /\ storedUser = GuestUser
    /\ clients = {}
    /\ swState = "activated"
    /\ caches = << [name |-> CACHE_NAME, entries |-> EmptyEntries] >>
    /\ \E n \in 1..LiveRecords : InitQueue(n)

\* The sync events of the runs examined for progress carry the drain's tag.
NextLive ==
    \/ SyncEvent(SYNC_TAG)
    \/ \E r \in BagToSet(drains), out \in ReplayOutcomes : DrainReplay(r, out)
    \/ \E r \in BagToSet(drains) : DrainDelete(r)
    \/ \E online \in BOOLEAN, out \in ReplayOutcomes : UM_syncReadingProgress(online, out)

SpecSyncLive ==
    /\ InitLive
    /\ [][NextLive]_vars
    /\ WF_vars(\E r \in BagToSet(drains), out \in ReplayOutcomes : DrainReplay(r, out))
    /\ WF_vars(\E r \in BagToSet(drains) : DrainDelete(r))

\* The same handlers and queues without the progress assumption: sync events
\* of either tag arrive.
SpecSyncTags == InitLive /\ [][NextSync]_vars

\* Both stores in use at once: a worker being installed over the cache of an
\* earlier deployment, with records waiting in pending_sync, and every
\* handler and page operation that touches either store.  The requests are
\* an API read and an API write.  (The page's own progress POST runs next to
\* the drains in SpecSync.)
StoreRequests ==
    { Req("GET",  "https", "/api/books", AcceptJson),
      Req("POST", "https", "/api/books", AcceptJson) }

InitStores ==
    /\ InitCommon
    /\ storedUser = GuestUser
    /\ clients = {}
    /\ swState = "parsed"
    /\ caches = << OldCache(OldNames[2]) >>
    /\ InitQueue(StoredRecords)

NextStores ==
    \/ \E k \in 0..Len(urlsToCache) : Install(k)
    \/ Activate
    \/ CleanupCache
    \/ \E req \in StoreRequests : FetchEvent(req, TRUE)
    \/ \E f \in BagToSet(fetching), out \in NetworkOutcomes : NetworkReply(f, out)
    \/ \E w \in putting : CachePut(w)
    \/ SyncEvent(SYNC_TAG)
    \/ \E r \in BagToSet(drains), out \in ReplayOutcomes : DrainReplay(r, out)
    \/ \E r \in BagToSet(drains) : DrainDelete(r)

SpecStores == InitStores /\ [][NextStores]_vars

\* The active worker receiving push messages and clicks on the
\* notifications it displayed; the application may have windows open at its
\* start page and on the reader.
InitPush ==
    /\ InitCommon
    /\ storedUser = GuestUser
    /\ swState = "activated"
    /\ caches = << [name |-> CACHE_NAME, entries |-> EmptyEntries] >>
    /\ InitQueue(0)
    /\ clients \in SUBSET { ClientUrl("/", ""), ClientUrl("/reader.html?book=", "1") }

NextPush ==
    \/ \E d \in PushData : PushEvent(d)
    \/ \E n \in shown : \E action \in ClickActions(n) : NotificationClick(n, action)

SpecPush == InitPush /\ [][NextPush]_vars

\* The page's BookManager on its own: time passes, cachedFetch is called for
\* either key, and the pending fetch functions settle in any order.
InitBooks ==
    /\ InitCommon
    /\ storedUser = GuestUser
    /\ clients = {}
    /\ swState = "activated"
    /\ caches = << [name |-> CACHE_NAME, entries |-> EmptyEntries] >>
    /\ InitQueue(0)

NextBooks ==
    \/ Tick
    \/ \E key \in BmKeys : CachedFetch(key)
    \/ \E c \in BagToSet(bmCalls), out \in FetchOutcomes : FetchSettles(c, out)

SpecBooks == InitBooks /\ [][NextBooks]_vars

\* The page's UserManager on its own: the page adds and removes favourites,
\* with calls overlapping; pending_sync holds a record, so that a retry
\* record added or lost would show.
InitUser ==
    /\ InitCommon
    /\ storedUser \in InitialUsers
    /\ clients = {}
    /\ swState = "activated"
    /\ caches = << [name |-> CACHE_NAME, entries |-> EmptyEntries] >>
    /\ InitQueue(1)

NextUser ==
    \/ \E bookId \in Books : AddToFavorites(bookId)
    \/ \E bookId \in Books : RemoveFromFavorites(bookId)
    \/ \E c \in BagToSet(umCalls) : FavoritesDecide(c)
    \/ \E c \in BagToSet(umCalls), onLine \in BOOLEAN : UserSave(c, onLine)
    \/ \E c \in BagToSet(umCalls), out \in ReplayOutcomes : UserPutSettles(c, out)

SpecUser == InitUser /\ [][NextUser]_vars

\* The same manager when the page changes settings.
NextUpdate ==
    \/ \E theme \in Themes : UpdateUser(ThemeUpdate(theme))
    \/ \E updated \in { << >>, << "2" >> } : UpdateUser(FavoritesUpdate(updated))
    \/ \E c \in BagToSet(umCalls), onLine \in BOOLEAN : UserSave(c, onLine)
    \/ \E c \in BagToSet(umCalls), out \in ReplayOutcomes : UserPutSettles(c, out)

SpecUpdate == InitUser /\ [][NextUpdate]_vars

\* The same manager when the page only adds favourites.
NextFavorites ==
    \/ \E bookId \in Books : AddToFavorites(bookId)
    \/ \E c \in BagToSet(umCalls) : FavoritesDecide(c)
    \/ \E c \in BagToSet(umCalls), onLine \in BOOLEAN : UserSave(c, onLine)
    \/ \E c \in BagToSet(umCalls), out \in ReplayOutcomes : UserPutSettles(c, out)

SpecFavorites == InitUser /\ [][NextFavorites]_vars

-----------------------------------------------------------------------------
(* Properties *)

\* The request of the answered event was handled by the fetch handler.
Handled == answer.valid /\ Intercepts(answer.req)

\* C1: whenever the cache lookup of an intercepted GET request resolved to
\* an entry, the handler answered with that entry and issued no network call.
C1_CacheHitNoNetwork ==
    (Handled /\ answer.matched # Undefined)
        => (answer.responded /\ answer.response = answer.matched /\ answer.netCalls = 0)

C1_Witness ==
    /\ Handled
    /\ answer.matched # Undefined
    /\ answer.response = answer.matched
    /\ answer.netCalls = 0

\* C2: a mutating request that failed at the network appended exactly one
\* record to pending_sync.
C2_ExactlyOneQueued == mutation.failed => mutation.queued = 1

\* C3: once a replay of a drain has failed, that drain neither removes the
\* failed operation nor goes on to a later one: its loop never stands
\* beyond the position of a failed replay.
C3_HaltOnFailure ==
    \A r \in BagToSet(drains) :
        \A i \in 1..Len(r.log) : r.log[i] # "ok" => r.idx <= i

\* C4: every step that removes a record from pending_sync is the delete of
\* a drain whose replay of that record was answered successfully.
C4_RemoveOnlyOnSuccess ==
    [][ \A id \in QueueIds(queue) \ QueueIds(queue') :
            \E r \in BagToSet(drains) :
                /\ r.pc = "delete"
                /\ r.pending[r.idx].id = id
                /\ r.log[r.idx] = "ok" ]_vars

\* C5: a document request (Accept includes text/html) that missed the cache
\* and whose network call failed was answered with the offline document.
C5_OfflinePlaceholder ==
    (Handled /\ AcceptsHtml(answer.req) /\ answer.matched = Undefined /\ answer.netFailed)
        => (answer.responded /\ answer.response # Undefined /\ answer.response.status = 200)

\* C6: a request whose Accept header does not include text/html, that missed
\* the cache and whose network call failed, is answered with a synthesized
\* 503 plain-text response, and answering it leaves Cache Storage unchanged.
C6_Degraded503 ==
    [][ ( /\ answer' # answer
          /\ answer'.valid /\ Intercepts(answer'.req)
          /\ HasAccept(answer'.req) /\ ~AcceptsHtml(answer'.req)
          /\ answer'.matched = Undefined /\ answer'.netFailed )
        => ( /\ answer'.responded
             /\ answer'.response.status = 503
             /\ answer'.response.ctype = "text/plain"
             /\ answer'.response.body = "You are offline"
             /\ caches' = caches ) ]_vars

C6_Witness ==
    /\ Handled
    /\ HasAccept(answer.req) /\ ~AcceptsHtml(answer.req)
    /\ answer.matched = Undefined /\ answer.netFailed
    /\ answer.response.status = 503

\* C7: no fetch event ends with the promise given to respondWith rejected,
\* and every answered fetch event got a response.
C7_NoFaultWellFormed ==
    answer.valid => (~answer.fault /\ (answer.responded => answer.response # Undefined))

\* C8: an install in which a manifest resource failed to fetch did not call
\* skipWaiting and left its worker redundant; skipWaiting was called, and the
\* worker is active, only with every manifest resource in the current cache.
C8_InstallAllOrNothing ==
    /\ installFailedAt # 0 => (~skipWaitingCalled /\ swState = "redundant")
    /\ skipWaitingCalled =>
           \A p \in ManifestPaths : Entries(caches, CACHE_NAME)[p] # Undefined
    /\ swState = "activated" => (skipWaitingCalled /\ installFailedAt = 0)

C8_Witness ==
    /\ installFailedAt # 0
    /\ swState = "redundant"
    /\ HasCache(caches, CACHE_NAME)

\* C9: a purge leaves no cache named otherwise than the current generation,
\* every entry the current generation held is what a lookup then finds, and a
\* purge that directly follows a purge changes nothing.
C9_PurgeKeepsCurrentOnly ==
    [][ lastPurge'.ran =>
          /\ CacheNames(caches') \subseteq {CACHE_NAME}
          /\ \A p \in Paths :
                Entries(caches, CACHE_NAME)[p] # Undefined
                    => Match(caches', p) = Entries(caches, CACHE_NAME)[p]
          /\ lastPurge.ran => caches' = caches ]_vars

C9_Witness ==
    /\ lastPurge.ran
    /\ lastPurge.deleted # {}
    /\ \A p \in ManifestPaths : Match(caches, p) = Resp("basic", 200, ManifestBody, "")

\* C10: a request whose key the fetch handler had stored a network response
\* under was answered with exactly the response stored last.
C10_StoredRoundTrip ==
    (Handled /\ answer.stored # Undefined) => answer.response = answer.stored

C10_Witness ==
    /\ Handled
    /\ answer.stored # Undefined
    /\ answer.response = answer.stored
    /\ answer.response.body \in Bodies

\* C11: an event whose request is not a GET, or whose url is a
\* chrome-extension url, is left without respondWith, without a cache lookup
\* and without a network call by the handler, and changes neither Cache
\* Storage nor the handler's pending work; every network call of the handler,
\* and so every cache write it schedules, belongs to a GET request.
C11_PassThroughUntouched ==
    [][ /\ (answer' # answer /\ answer'.valid /\ ~Intercepts(answer'.req))
            => ( /\ ~answer'.responded
                 /\ answer'.matched = Undefined
                 /\ answer'.netCalls = 0
                 /\ caches' = caches
                 /\ fetching' = fetching
                 /\ putting' = putting
                 /\ lastStored' = lastStored )
        /\ \A f \in BagToSet(fetching') :
               f.req.method = "GET" /\ f.req.scheme # "chrome-extension"
        /\ \A w \in putting' \ putting :
               \E f \in BagToSet(fetching) :
                   f.req.method = "GET" /\ f.req.path = w.path ]_vars

C11_Witness ==
    /\ answer.valid
    /\ answer.req.method = "POST"
    /\ ~answer.responded
    /\ answer.netCalls = 0
    /\ answer.matched = Undefined
    /\ Match(caches, answer.req.path) # Undefined

\* C12: the handler schedules a cache write only for a network response
\* with status 200 and type basic, so every entry of the current cache is
\* such a response; a response of another status or type is handed to the
\* caller as the network gave it, and handing it over leaves Cache Storage and
\* the scheduled writes unchanged.
C12_StoreOnlyBasic200 ==
    [][ /\ \A w \in putting' \ putting :
               w.toCache.status = 200 /\ w.toCache.type = "basic"
        /\ \A p \in Paths :
               Entries(caches', CACHE_NAME)[p] # Undefined
                   => ( /\ Entries(caches', CACHE_NAME)[p].status = 200
                        /\ Entries(caches', CACHE_NAME)[p].type = "basic" )
        /\ ( /\ answer' # answer
             /\ answer'.valid /\ answer'.netCalls = 1 /\ ~answer'.netFailed
             /\ (answer'.response.status # 200 \/ answer'.response.type # "basic") )
            => ( /\ answer'.response \in NetworkResponses
                 /\ putting' = putting
                 /\ caches' = caches ) ]_vars

C12_Witness ==
    /\ Handled
    /\ answer.netCalls = 1 /\ ~answer.netFailed
    /\ answer.response.type = "cors" /\ answer.response.status = 200
    /\ putting = {}
    /\ Match(caches, answer.req.path) = Undefined

\* C13: the two stores are independent: a step that deletes a cache or is
\* a purge (activate, cleanupCache) leaves pending_sync and the running drains
\* as they were, and a step that changes pending_sync or moves a drain leaves
\* every cache and every cache entry as it was.
C13_StoresIndependent ==
    [][ /\ ( \/ CacheNames(caches') # CacheNames(caches)
             \/ (lastPurge'.ran /\ lastPurge' # lastPurge) )
            => (queue' = queue /\ drains' = drains)
        /\ (queue' # queue \/ drains' # drains) => caches' = caches ]_vars

C13_Witness ==
    /\ lastPurge.ran
    /\ lastPurge.deleted # {}
    /\ queue = << >>
    /\ \A p \in ManifestPaths : Match(caches, p) # Undefined

\* C14: every step that removes a record from pending_sync is the delete
\* of a running drain standing at that record; a step that moves no drain
\* (install, activate, cleanupCache, a fetch event and its continuations)
\* keeps every queued record.
C14_OnlyDrainRemoves ==
    [][ /\ \A id \in QueueIds(queue) \ QueueIds(queue') :
               /\ drains' # drains
               /\ \E r \in BagToSet(drains) :
                      r.pc = "delete" /\ r.pending[r.idx].id = id
        /\ drains' = drains => QueueIds(queue) \subseteq QueueIds(queue') ]_vars

C14_Witness ==
    /\ queue = << >>
    /\ swState = "activated"
    /\ lastPurge.ran
    /\ Handled
    /\ answer.req.path = "/api/books"
    /\ Match(caches, "/api/books") # Undefined

\* The records a running drain has replayed so far.
Replayed(r) == { r.pending[i].id : i \in 1..Len(r.log) }

\* C15: of the drains running at the same time, at most one has replayed
\* a record that is still in pending_sync.
C15_NoConcurrentReplay ==
    \A id \in QueueIds(queue) :
        \A r1, r2 \in BagToSet(drains) :
            (id \in Replayed(r1) /\ id \in Replayed(r2))
                => (r1 = r2 /\ CopiesIn(r1, drains) = 1)

\* C16: a drain replays its snapshot in key order, one record at a time:
\* the replays made are exactly those of the positions reached, and every
\* position the loop has left behind was replayed successfully and its record
\* is gone from pending_sync.
C16_InOrderOneAtATime ==
    \A r \in BagToSet(drains) :
        /\ \A i, j \in 1..Len(r.pending) : i < j => r.pending[i].id < r.pending[j].id
        /\ Len(r.log) = IF r.pc = "delete" THEN r.idx ELSE r.idx - 1
        /\ \A i \in 1..(r.idx - 1) :
               r.log[i] = "ok" /\ r.pending[i].id \notin QueueIds(queue)

\* C17: every request a drain has issued carries the url, the method and
\* the body of the call its record was queued for.
C17_ReplaySameRequest ==
    \A r \in BagToSet(drains) :
        \A i \in 1..Len(r.sent) :
            /\ r.sent[i].url = r.pending[i].url
            /\ r.sent[i].method = r.pending[i].method
            /\ r.sent[i].body = JSONstringify(r.pending[i].data)

\* A replay is rejected by the network.
ReplayRejected == \E r \in BagToSet(drains) : DrainReplay(r, "netError")

\* C18: in every run in which sync events with the drain's tag keep
\* starting drains for as long as they can and, from some point on, no replay
\* is rejected by the network, a non-empty pending_sync is eventually empty:
\* the records a halted drain left behind are taken up by a later drain.
C18_EventuallyDrained ==
    ( /\ []<><<SyncEvent(SYNC_TAG)>>_vars
      /\ <>[][~ReplayRejected]_vars )
        => (queue # << >> ~> queue = << >>)

C18_Witness ==
    /\ lastHalt # 0
    /\ queue = << >>
    /\ drains = EmptyBag

\* C19: an intercepted request whose cache lookup was rejected got a
\* network call and an answer; the promise given to respondWith did not
\* reject.
C19_StoreFailureDegrades ==
    (Handled /\ answer.storeFailed)
        => (answer.netCalls = 1 /\ ~answer.fault /\ answer.response # Undefined)

\* The answered event missed the cache and got a same-origin 200 response
\* from the network.
FreshlyFetched(a) ==
    /\ a.valid /\ Intercepts(a.req)
    /\ a.netCalls = 1 /\ ~a.netFailed
    /\ a.response.status = 200 /\ a.response.type = "basic"

\* C20, as stated: whenever the caller has received a storable response
\* fetched from the network, a lookup of its key finds an entry.
C20_StoredBeforeReturn ==
    FreshlyFetched(answer) => Match(caches, answer.req.path) # Undefined

\* C20, amended: the step that hands a storable network response to the
\* caller issues the cache write of its copy and leaves Cache Storage as it
\* is; the entry is there once that write is performed.
C20_WriteIssuedBeforeReturn ==
    [][ /\ (answer' # answer /\ FreshlyFetched(answer'))
            => ( /\ [path |-> answer'.req.path, toCache |-> answer'.response] \in putting'
                 /\ caches' = caches )
        /\ \A w \in putting \ putting' :
               Entries(caches', CACHE_NAME)[w.path] = w.toCache ]_vars

C20_Witness ==
    /\ FreshlyFetched(answer)
    /\ [path |-> answer.req.path, toCache |-> answer.response] \in putting
    /\ Match(caches, answer.req.path) = Undefined

\* C21, as stated: no step changes the payload of a key that has an entry
\* in the current cache.
C21_EntryNeverChanges ==
    [][ \A p \in Paths :
            Entries(caches, CACHE_NAME)[p] # Undefined
                => Entries(caches', CACHE_NAME)[p] = Entries(caches, CACHE_NAME)[p] ]_vars

\* C21, amended: a request that finds an entry never starts a network call
\* or a write for its key, so every network call in flight belongs to a
\* request that missed; the payload of an existing entry changes only by the
\* pending write of such a request, and becomes the response that write
\* carries (the last write wins).
C21_OnlyMissesRewrite ==
    [][ /\ \A f \in BagToSet(fetching') : f.matched = Undefined
        /\ fetching' # fetching /\ BagCardinality(fetching') > BagCardinality(fetching)
            => \A f \in BagToSet(fetching') :
                   CopiesIn(f, fetching') > CopiesIn(f, fetching)
                       => Match(caches, f.req.path) = Undefined
        /\ \A p \in Paths :
               ( /\ Entries(caches, CACHE_NAME)[p] # Undefined
                 /\ Entries(caches', CACHE_NAME)[p] # Entries(caches, CACHE_NAME)[p] )
                   => \E w \in putting \ putting' :
                          w.path = p /\ Entries(caches', CACHE_NAME)[p] = w.toCache ]_vars

\* A caller was served the entry of a key from the cache, and the entry of
\* that key has a different payload now.
C21_Witness ==
    /\ Handled
    /\ answer.netCalls = 0
    /\ answer.matched # Undefined
    /\ Entries(caches, CACHE_NAME)[answer.req.path] # Undefined
    /\ Entries(caches, CACHE_NAME)[answer.req.path] # answer.matched

\* C22: no step creates a cache named otherwise than the current
\* generation or changes an entry of such a cache, so install and the fetch
\* handler write the current cache only; a purge deletes exactly the caches
\* whose name is not the current one.
C22_WritesCurrentGenerationOnly ==
    [][ /\ \A n \in CacheNames(caches') \ {CACHE_NAME} :
               n \in CacheNames(caches) /\ Entries(caches', n) = Entries(caches, n)
        /\ lastPurge'.ran =>
               /\ lastPurge'.deleted = CacheNames(caches) \ {CACHE_NAME}
               /\ CacheNames(caches') = CacheNames(caches) \cap {CACHE_NAME} ]_vars

\* Install has written the manifest into the current cache next to the
\* untouched cache of the previous generation.
C22_Witness ==
    /\ swState = "installed"
    /\ HasCache(caches, OldNames[2])
    /\ Entries(caches, OldNames[2]) = OldCache(OldNames[2]).entries
    /\ \A p \in ManifestPaths : Entries(caches, CACHE_NAME)[p] # Undefined

\* C23: a push whose payload has a title, a body and an id made exactly
\* one showNotification call, with that title and body, with the payload's id
\* as the primaryKey of the notification's data, and with the payload's
\* actions, or none when the payload has no actions.
C23_PushDisplaysPayload ==
    ( /\ lastPush.valid /\ lastPush.data.kind = "json"
      /\ lastPush.data.payload.title # Missing
      /\ lastPush.data.payload.body # Missing
      /\ lastPush.data.payload.id # Missing )
        => ( /\ lastPush.shows = 1
             /\ ~lastPush.fault
             /\ lastPush.request.title = lastPush.data.payload.title
             /\ lastPush.request.body = lastPush.data.payload.body
             /\ lastPush.request.data.primaryKey = lastPush.data.payload.id
             /\ lastPush.request.actions =
                    IF lastPush.data.payload.hasActions
                    THEN lastPush.data.payload.actions ELSE << >> )

C23_Witness ==
    /\ lastPush.valid
    /\ lastPush.data.payload = Payload("T", "B", "42", FALSE, << >>)
    /\ lastPush.shows = 1
    /\ lastPush.request.data.primaryKey = "42"
    /\ lastPush.request.actions = << >>
    /\ lastPush.request \in shown

\* C24: a push whose payload is the empty object made no showNotification
\* call.
C24_EmptyPayloadSilent ==
    (lastPush.valid /\ lastPush.data.kind = "json" /\ lastPush.data.payload = EmptyPayload)
        => lastPush.shows = 0

\* C25: a push event without data makes no showNotification call, does
\* not throw and changes nothing: not the notifications on display, not the
\* windows, not the caches, not pending_sync.
C25_NoDataNoOp ==
    [][ (lastPush' # lastPush /\ lastPush'.valid /\ lastPush'.data.kind = "none")
            => ( /\ lastPush'.shows = 0
                 /\ ~lastPush'.fault
                 /\ shown' = shown
                 /\ clients' = clients
                 /\ lastClick' = lastClick
                 /\ cacheVars' = cacheVars
                 /\ syncVars' = syncVars ) ]_vars

C25_Witness ==
    /\ lastPush.valid
    /\ lastPush.data.kind = "none"
    /\ lastPush.shows = 0
    /\ shown # {}

\* C26: a push whose data is not JSON made no showNotification call and
\* its handler did not throw.
C26_MalformedSilent ==
    (lastPush.valid /\ lastPush.data.kind = "malformed")
        => (lastPush.shows = 0 /\ ~lastPush.fault)

\* C27: a click on the body of a notification focused the window that was
\* open at the start page and opened none when there was such a window, and
\* opened a window at '/' only when there was none.
C27_FocusElseOpen ==
    (lastClick.valid /\ lastClick.action = "")
        => IF ClientUrl("/", "") \in lastClick.clientsBefore
           THEN lastClick.focused = ClientUrl("/", "") /\ lastClick.opened = NoUrl
           ELSE lastClick.focused = NoUrl /\ lastClick.opened = Url("", "/", "")

\* C28: a click on the action open_book opened the reader on the book
\* named by the key the push handler kept in the notification's data; a click
\* on view_notifications opened '/#notifications'.
C28_ActionRoutes ==
    /\ (lastClick.valid /\ lastClick.action = "open_book")
          => lastClick.opened =
                 Url("", "/reader.html?book=", lastClick.notification.data.primaryKey)
    /\ (lastClick.valid /\ lastClick.action = "view_notifications")
          => lastClick.opened = Url("", "/#notifications", "")

\* C29: a click on an action that is neither open_book nor
\* view_notifications closes the notification, opens no window and focuses
\* none.
C29_UnknownActionIgnored ==
    [][ ( /\ lastClick' # lastClick /\ lastClick'.valid
          /\ lastClick'.action \notin {"", "open_book", "view_notifications"} )
            => ( /\ lastClick'.closed
                 /\ lastClick'.notification \in shown
                 /\ lastClick'.notification \notin shown'
                 /\ lastClick'.opened = NoUrl
                 /\ lastClick'.focused = NoUrl
                 /\ clients' = clients ) ]_vars

C29_Witness ==
    /\ lastClick.valid
    /\ lastClick.action = "dismiss"
    /\ lastClick.closed
    /\ lastClick.opened = NoUrl
    /\ lastClick.clientsBefore # {}
    /\ clients = lastClick.clientsBefore

\* C30: in every state in which the worker is activated, the lookup over all
\* caches resolves, for every key, to what the current generation holds for
\* it, and no cache of another generation holds an entry; so every entry the
\* fetch handler serves is the current generation's entry for the key.
C30_LookupCurrentGenerationOnly ==
    [][ /\ swState' = "activated" =>
               /\ \A p \in Paths : Match(caches', p) = Entries(caches', CACHE_NAME)[p]
               /\ \A n \in CacheNames(caches') \ {CACHE_NAME} :
                      Entries(caches', n) = EmptyEntries
        /\ ( /\ answer' # answer
             /\ answer'.valid /\ Intercepts(answer'.req)
             /\ answer'.matched # Undefined )
               => /\ answer'.matched = Entries(caches, CACHE_NAME)[answer'.req.path]
                  /\ answer'.matched.body # OldNames[1]
                  /\ answer'.matched.body # OldNames[2] ]_vars

\* A key that caches of earlier generations may hold and the manifest does
\* not list was served from the current cache, the only cache left.
C30_Witness ==
    /\ swState = "activated"
    /\ Handled
    /\ answer.req.path = "/api/books"
    /\ answer.matched # Undefined
    /\ answer.response = Entries(caches, CACHE_NAME)["/api/books"]
    /\ CacheNames(caches) = {CACHE_NAME}

\* C31: a sync event whose tag is not sync-reading-progress changes nothing:
\* no drain is started (so no replay request is issued), pending_sync keeps
\* its records, and no other part of the state moves.
C31_OtherTagIgnored ==
    [][ (lastSync' \notin {NoSync, SYNC_TAG})
            => ( /\ drains' = drains
                 /\ queue' = queue
                 /\ mutation' = mutation
                 /\ lastHalt' = lastHalt
                 /\ cacheVars' = cacheVars
                 /\ notifVars' = notifVars ) ]_vars

\* A sync event with another tag was handled while records were waiting and
\* no drain is running.
C31_Witness ==
    /\ lastSync \notin {NoSync, SYNC_TAG}
    /\ queue # << >>
    /\ drains = EmptyBag

\* C32: a cachedFetch call that found an entry younger than five minutes
\* (300000 ms) returned its data without calling the fetch function and left
\* the cache alone; a call that found no entry, or one at least five minutes
\* old, called the fetch function, and when that succeeded the entry of the
\* key became the new data (stamped with the time the call started) and the
\* call returned it.
C32_FreshHitElseRefetch ==
    [][ lastCall'.valid =>
          LET c     == lastCall'
              young == c.cached.present /\ c.now - c.cached.timestamp < 300000
          IN  /\ young => ( /\ ~c.called
                            /\ ~c.threw
                            /\ c.returned = c.cached.data
                            /\ bmCache' = bmCache )
              /\ ~young => c.called
              /\ (~young /\ ~c.failed) =>
                     ( /\ ~c.threw
                       /\ bmCache'[c.key] = Entry(c.returned, c.now)
                       /\ \A k \in BmKeys \ {c.key} : bmCache'[k] = bmCache[k] ) ]_vars

\* An entry exactly five minutes old was refetched and replaced by other data.
C32_Witness ==
    /\ lastCall.valid
    /\ lastCall.cached.present
    /\ lastCall.now - lastCall.cached.timestamp = 300000
    /\ lastCall.called /\ ~lastCall.failed
    /\ lastCall.returned # lastCall.cached.data
    /\ bmCache[lastCall.key] = Entry(lastCall.returned, lastCall.now)

\* C33: a cachedFetch call whose fetch function failed left the cache as it
\* was; it returned the data of the entry it had read for the key when it
\* started, whatever its age, and threw when it had read none.
C33_FailureServesStale ==
    [][ (lastCall'.valid /\ lastCall'.failed) =>
          /\ bmCache' = bmCache
          /\ IF lastCall'.cached.present
             THEN ~lastCall'.threw /\ lastCall'.returned = lastCall'.cached.data
             ELSE lastCall'.threw ]_vars

\* A failed refresh returned an entry more than five minutes old, which is
\* still cached.
C33_Witness ==
    /\ lastCall.valid /\ lastCall.failed
    /\ lastCall.cached.present
    /\ lastCall.now - lastCall.cached.timestamp > 300000
    /\ lastCall.returned = lastCall.cached.data
    /\ bmCache[lastCall.key] = lastCall.cached

\* C34: the timestamp stored for a key never decreases.
C34_TimestampMonotone ==
    [][ \A k \in BmKeys :
            (bmCache[k].present /\ bmCache'[k].present)
                => bmCache'[k].timestamp >= bmCache[k].timestamp ]_vars

\* The stored user has every property of the updates, with its value.
HasUpdates(user, updates) ==
    /\ updates.hasTheme => user.theme = updates.theme
    /\ updates.hasFavs => (user.hasFavorites /\ user.favorites = updates.favorites)

\* C35: when updateUser issues the PUT request the stored user already has
\* the updates; when the request is rejected updateUser throws, the stored
\* user is left as it is (nothing is rolled back), and no record is added to
\* pending_sync or kept anywhere else for a retry.
C35_SavedFirstNoRollback ==
    [][ /\ \A c \in BagToSet(umCalls') :
               (c.pc = "put" /\ CopiesIn(c, umCalls') > CopiesIn(c, umCalls))
                   => HasUpdates(storedUser', c.updates)
        /\ (lastOp'.valid /\ lastOp'.rejected) =>
               ( /\ lastOp'.threw
                 /\ lastOp'.didSave
                 /\ storedUser' = storedUser
                 /\ queue' = queue
                 /\ BagCardinality(umCalls') = BagCardinality(umCalls) - 1 ) ]_vars

\* The PUT request of a theme change was rejected: the stored user has the
\* new theme and pending_sync holds what it held.
C35_Witness ==
    /\ lastOp.valid /\ lastOp.rejected /\ lastOp.threw
    /\ lastOp.updates = ThemeUpdate("dark")
    /\ storedUser.theme = "dark"
    /\ umCalls = EmptyBag
    /\ queue = << PendingRecord(1) >>

\* C36: an addToFavorites call for a book that is in the list it read
\* returns without saving the user and without a request; the stored
\* favourites list never holds a book twice; and when removeFromFavorites(b)
\* has completed, b is not a favourite.
C36_FavoritesIdempotent ==
    [][ /\ \A c \in BagToSet(umCalls) :
               ( /\ c.op = "add" /\ c.pc = "decide"
                 /\ Includes(Favorites(c.user), c.book)
                 /\ CopiesIn(c, umCalls') < CopiesIn(c, umCalls) )
                   => ( /\ storedUser' = storedUser
                        /\ lastOp'.valid /\ ~lastOp'.didSave /\ ~lastOp'.sent
                        /\ BagCardinality(umCalls') < BagCardinality(umCalls) )
        /\ \A i, j \in 1..Len(storedUser'.favorites) :
               i # j => storedUser'.favorites[i] # storedUser'.favorites[j]
        /\ (lastOp'.valid /\ lastOp'.op = "remove")
               => ~IsBookFavorite(storedUser', lastOp'.book) ]_vars

\* C37: when the page only adds favourites and no call is pending, every
\* book whose addToFavorites call has returned is in the stored list.
C37_NoLostFavorite ==
    umCalls = EmptyBag => \A b \in added : IsBookFavorite(storedUser, b)

====
